---- MODULE Spec2Model ----
(***************************************************************************)
(* A model of the chat-pdf document cache: the SQLite store of             *)
(* database.py (ChatPDFDatabase) and the ingestion flow of chat-pdf.py.    *)
(*                                                                         *)
(* Representation.                                                         *)
(*   - A text is a sequence of one-character strings; " " and "\n" are     *)
(*     the whitespace characters.                                          *)
(*   - An Optional value is a sequence of length 0 (None) or 1 (<<x>>).    *)
(*   - A table is the set of its rows (records); sqlite_sequence holds     *)
(*     the AUTOINCREMENT counter of every table.                           *)
(*   - A file's SHA256 is modelled as an injective tagging of its bytes;   *)
(*     the sentinel "" that _get_file_hash returns for a missing file is   *)
(*     the empty sequence.                                                 *)
(*   - An embedding vector is [dim, val, dtype]: dim components, all       *)
(*     described by the number val; dtype is "f32" or "f64", and an "f64"  *)
(*     vector carries precision that float32 cannot hold.                  *)
(***************************************************************************)
EXTENDS Integers, Sequences, FiniteSets, TLC

VARIABLES
    db,         \* the SQLite database file: tables and sqlite_sequence
    disk,       \* the file system: path -> Optional content
    lastOp,     \* the last ChatPDFDatabase call: its arguments and outcome
    lastStored, \* filename -> Optional (text, chunks) of the last committed store_document
    proc,       \* the main program of chat-pdf.py: its position and its variables
    obs         \* what is observed of the runs of the main program

vars == <<db, disk, lastOp, lastStored, proc, obs>>

----------------------------------------------------------------------------
(* Bounds of the model *)

\* store_document calls per behaviour (rows ever inserted into documents)
MaxDocId == 2

\* characters of a text given to split_into_chunks
MaxTextLen == 5

\* largest max_words given to split_into_chunks
MaxWords == 3

\* runs of the main program per behaviour
MaxRuns == 2

\* files written or removed by other processes per behaviour of the main program
MaxEnvSteps == 1

----------------------------------------------------------------------------
(* Optional values *)

None == <<>>

Some(x) == <<x>>

IsNone(o) == Len(o) = 0

Get(o) == o[1]

----------------------------------------------------------------------------
(* Text: str.split() and " ".join() *)

IsSpace(c) == c \in {" ", "\n"}

\* text.split(): the maximal runs of non-whitespace characters of
\* text[lo..hi], in order. The two halves are split apart and a word that
\* runs across the middle is put together again.
RECURSIVE SplitRange(_, _, _)
SplitRange(text, lo, hi) ==
    IF lo > hi THEN <<>>
    ELSE IF lo = hi THEN (IF IsSpace(text[lo]) THEN <<>> ELSE << <<text[lo]>> >>)
    ELSE LET mid == (lo + hi) \div 2
             L == SplitRange(text, lo, mid)
             R == SplitRange(text, mid + 1, hi)
         IN IF ~IsSpace(text[mid]) /\ ~IsSpace(text[mid + 1])
            THEN SubSeq(L, 1, Len(L) - 1) \o <<L[Len(L)] \o R[1]>> \o Tail(R)
            ELSE L \o R

split(text) == SplitRange(text, 1, Len(text))

\* " ".join(words[lo..hi])
RECURSIVE JoinRange(_, _, _)
JoinRange(words, lo, hi) ==
    IF lo > hi THEN <<>>
    ELSE IF lo = hi THEN words[lo]
    ELSE LET mid == (lo + hi) \div 2
         IN JoinRange(words, lo, mid) \o <<" ">> \o JoinRange(words, mid + 1, hi)

\* "".join(words)
RECURSIVE JoinNoSpace(_)
JoinNoSpace(words) == IF Len(words) = 0 THEN <<>> ELSE Head(words) \o JoinNoSpace(Tail(words))

join(words) == JoinRange(words, 1, Len(words))

Min(a, b) == IF a < b THEN a ELSE b

\* the default of max_words
DefaultMaxWords == 200

\* chunks of max_words + 1 words, each starting max_words after the last
split_into_chunks_overlap(text, max_words) ==
    LET words == split(text)
        n == Len(words)
        nChunks == (n + max_words - 1) \div max_words
    IN [k \in 1..nChunks |->
           join(SubSeq(words, (k - 1) * max_words + 1, Min(k * max_words + 1, n)))]

\* split_into_chunks(text, max_words): for i in range(0, len(words), max_words)
split_into_chunks(text, max_words) ==
    LET words == split(text)
        n == Len(words)
        nChunks == (n + max_words - 1) \div max_words
    IN [k \in 1..nChunks |->
           join(SubSeq(words, (k - 1) * max_words + 1, Min(k * max_words, n)))]

----------------------------------------------------------------------------
(* Files *)

\* The identities of the model: one text file and one PDF.
Files == {"a.txt", "b.pdf"}

\* filename.lower().endswith(".pdf")
IsPdf(filename) == filename = "b.pdf"

\* txt_file of migrate_from_files, txt_cache of the main program:
\* filename[:-4] + ".txt" for a PDF, the file itself otherwise
TxtFile(filename) == IF IsPdf(filename) THEN "b.txt" ELSE filename

\* txt_file + ".embeddings.npy"
EmbeddingsFile(filename) ==
    IF TxtFile(filename) = "b.txt" THEN "b.txt.embeddings.npy" ELSE "a.txt.embeddings.npy"

\* txt_file + ".faiss"
FaissFile(filename) ==
    IF TxtFile(filename) = "b.txt" THEN "b.txt.faiss" ELSE "a.txt.faiss"

Paths ==
    Files \cup {TxtFile(f) : f \in Files} \cup {EmbeddingsFile(f) : f \in Files}
          \cup {FaissFile(f) : f \in Files}

\* os.path.exists
Exists(fs, path) == ~IsNone(fs[path])

\* hashlib.sha256 of the bytes: injective, and never the empty string
Sha256(bytes) == <<"sha256">> \o bytes

\* the sentinel "" of a missing file
EmptyHash == <<>>

_get_file_hash(fs, filename) ==
    IF ~Exists(fs, filename) THEN EmptyHash ELSE Sha256(Get(fs[filename]))

----------------------------------------------------------------------------
(* The tables. processed_date, created_date and the row ids of embeddings  *)
(* and faiss_indices are written and never read by the program; they are   *)
(* left out.                                                               *)

\* the database after init_database on a new file
EmptyDb ==
    [documents |-> {}, chunks |-> {}, embeddings |-> {}, faiss_indices |-> {},
     sqlite_sequence |-> [documents |-> 0, chunks |-> 0]]

\* a value that is not a str (None): chunk.split() raises on it, and the
\* NOT NULL constraint of content_text refuses it
NotAStr == <<"<None>">>

IsStr(x) == x # NotAStr

\* a mutant of OrderByChunkIndex: ORDER BY chunk_index DESC
RECURSIVE OrderByChunkIndexDesc(_)
OrderByChunkIndexDesc(rows) ==
    IF rows = {} THEN <<>>
    ELSE LET first == CHOOSE r \in rows : \A q \in rows : r.chunk_index >= q.chunk_index
         IN <<first>> \o OrderByChunkIndexDesc(rows \ {first})

\* the rows of a set of chunks rows, ORDER BY chunk_index
RECURSIVE OrderByChunkIndex(_)
OrderByChunkIndex(rows) ==
    IF rows = {} THEN <<>>
    ELSE LET first == CHOOSE r \in rows : \A q \in rows : r.chunk_index <= q.chunk_index
         IN <<first>> \o OrderByChunkIndex(rows \ {first})

ChunksOf(d, document_id) == {c \in d.chunks : c.document_id = document_id}

\* a mutant of document_exists: the hash is not compared
document_exists_by_name(d, fs, filename) ==
    \E r \in d.documents : r.filename = filename

\* the hash compared even when it is the sentinel of a missing file
document_exists_by_hash(d, fs, filename) ==
    \E r \in d.documents : r.filename = filename /\ r.file_hash = _get_file_hash(fs, filename)

\* document_exists: false for a missing file, else whether a row holds the
\* filename with the current hash
document_exists(d, fs, filename) ==
    LET current_hash == _get_file_hash(fs, filename)
    IN IF current_hash = EmptyHash
       THEN FALSE
       ELSE \E r \in d.documents : r.filename = filename /\ r.file_hash = current_hash

\* a mutant of InsertOrReplaceDocument: a plain INSERT on a table whose
\* filename is not UNIQUE
InsertDocument(d, filename, file_hash, content_text) ==
    LET id == d.sqlite_sequence.documents + 1
    IN [d EXCEPT
          !.documents = @ \cup {[id |-> id, filename |-> filename, file_hash |-> file_hash,
                                 content_text |-> content_text]},
          !.sqlite_sequence.documents = id]

\* an UPDATE of the row that holds the filename, which keeps its id
UpdateDocument(d, filename, file_hash, content_text) ==
    LET old == {r \in d.documents : r.filename = filename}
        id == IF old = {} THEN d.sqlite_sequence.documents + 1
              ELSE (CHOOSE r \in old : TRUE).id
    IN [d EXCEPT
          !.documents = {r \in @ : r.filename # filename} \cup
                        {[id |-> id, filename |-> filename, file_hash |-> file_hash,
                          content_text |-> content_text]},
          !.sqlite_sequence.documents = id]

\* INSERT OR REPLACE INTO documents: the row that holds the filename is
\* deleted (UNIQUE filename) and a new row gets the next AUTOINCREMENT id.
\* Foreign keys are not enforced (PRAGMA foreign_keys is off): the rows that
\* reference the deleted document stay.
InsertOrReplaceDocument(d, filename, file_hash, content_text) ==
    LET id == d.sqlite_sequence.documents + 1
    IN [d EXCEPT
          !.documents = {r \in @ : r.filename # filename} \cup
                        {[id |-> id, filename |-> filename, file_hash |-> file_hash,
                          content_text |-> content_text]},
          !.sqlite_sequence.documents = id]

\* cursor.lastrowid after the insert
LastDocumentId(d) == d.sqlite_sequence.documents

\* DELETE FROM chunks WHERE document_id = ?
DeleteChunks(d, document_id) ==
    [d EXCEPT !.chunks = {c \in @ : c.document_id # document_id}]

\* the chunk at position i stored with the ordinal i + 1
InsertChunkOneBased(d, document_id, i, chunk) ==
    LET id == d.sqlite_sequence.chunks + 1
    IN [d EXCEPT
          !.chunks = @ \cup {[id |-> id, document_id |-> document_id, chunk_index |-> i + 1,
                              content |-> chunk, word_count |-> Len(split(chunk))]},
          !.sqlite_sequence.chunks = id]

\* INSERT INTO chunks, for the chunk at position i (0-based)
InsertChunk(d, document_id, i, chunk) ==
    LET id == d.sqlite_sequence.chunks + 1
    IN [d EXCEPT
          !.chunks = @ \cup {[id |-> id, document_id |-> document_id, chunk_index |-> i,
                              content |-> chunk, word_count |-> Len(split(chunk))]},
          !.sqlite_sequence.chunks = id]

\* the loop over enumerate(chunks), from position i on: it stops at the first
\* chunk that is not a str, with the rows inserted so far in the transaction
RECURSIVE InsertChunks(_, _, _, _)
InsertChunks(d, document_id, chunks, i) ==
    IF i >= Len(chunks) THEN [db |-> d, ok |-> TRUE]
    ELSE IF ~IsStr(chunks[i + 1]) THEN [db |-> d, ok |-> FALSE]
    ELSE InsertChunks(InsertChunk(d, document_id, i, chunks[i + 1]), document_id, chunks, i + 1)

\* a mutant of Rollback: what the transaction wrote stays
NoRollback(before, inTransaction) == inTransaction

\* conn.rollback(): the database as it was when the transaction began
Rollback(before, inTransaction) == before

\* store_document: [db, ok, id]; ok is FALSE when the call raised
store_document(d, fs, filename, content_text, chunks) ==
    LET file_hash == _get_file_hash(fs, filename)
    IN IF ~IsStr(content_text)
       THEN [db |-> Rollback(d, d), ok |-> FALSE, id |-> 0]
       ELSE LET d1 == InsertOrReplaceDocument(d, filename, file_hash, content_text)
                document_id == LastDocumentId(d1)
                d2 == DeleteChunks(d1, document_id)
                tx == InsertChunks(d2, document_id, chunks, 0)
            IN IF tx.ok
               THEN [db |-> tx.db, ok |-> TRUE, id |-> document_id]
               ELSE [db |-> Rollback(d, tx.db), ok |-> FALSE, id |-> 0]

\* get_document_by_filename: None, or (document_id, content_text, chunks)
get_document_by_filename(d, filename) ==
    LET rows == {r \in d.documents : r.filename = filename}
    IN IF rows = {} THEN None
       ELSE LET doc == CHOOSE r \in rows : TRUE
                ordered == OrderByChunkIndex(ChunksOf(d, doc.id))
            IN Some([document_id |-> doc.id, content_text |-> doc.content_text,
                     chunks |-> [k \in 1..Len(ordered) |-> ordered[k].content]])

\* get_chunks_by_document_id
get_chunks_by_document_id(d, document_id) ==
    LET ordered == OrderByChunkIndex(ChunksOf(d, document_id))
    IN [k \in 1..Len(ordered) |-> ordered[k].content]

----------------------------------------------------------------------------
(* Embeddings and indices *)

\* An embeddings matrix (a 2-D numpy array) is [dim, rows]: shape
\* (Len(rows), dim), row k described by the number rows[k]. The float64
\* values that float32 cannot hold are the odd numbers.

\* the default dimension of migrate_from_files, the dimension of all-MiniLM-L6-v2
DefaultDimension == 384

\* embedding.astype('float32') of one row
AsFloat32(val) == val - (val % 2)

\* pickle.dumps / pickle.loads of a 1-D array
PickleDumps(vector) == [pickle |-> vector]

PickleLoads(blob) == blob.pickle

\* a mutant of Zip: the second sequence is paired from its end
ZipReversed(a, b) == [k \in 1..Min(Len(a), Len(b)) |-> <<a[k], b[Len(b) + 1 - k]>>]

\* zip(a, b): as long as the shorter of the two
Zip(a, b) == [k \in 1..Min(Len(a), Len(b)) |-> <<a[k], b[k]>>]

\* store_embeddings: the embeddings of all chunks of the document are
\* deleted, then one row is inserted per (chunk id, row) pair of the zip.
\* Nothing in it compares the two lengths, and nothing raises.
store_embeddings(d, document_id, embeddings) ==
    LET ordered == OrderByChunkIndex(ChunksOf(d, document_id))
        chunk_ids == [k \in 1..Len(ordered) |-> ordered[k].id]
        cleared == {e \in d.embeddings : e.chunk_id \notin {c.id : c \in ChunksOf(d, document_id)}}
        pairs == Zip(chunk_ids, embeddings.rows)
        inserted == {[chunk_id |-> pairs[k][1],
                      embedding_vector |->
                          PickleDumps([dim |-> embeddings.dim, val |-> AsFloat32(pairs[k][2])])] :
                     k \in 1..Len(pairs)}
    IN [db |-> [d EXCEPT !.embeddings = cleared \cup inserted], ok |-> TRUE]

\* get_embeddings: None when the join is empty, else the matrix of the
\* vectors of the document's chunks that have one, ORDER BY chunk_index
get_embeddings(d, document_id) ==
    LET ordered == OrderByChunkIndex(
                       {c \in ChunksOf(d, document_id) :
                           \E e \in d.embeddings : e.chunk_id = c.id})
        vector(c) == PickleLoads((CHOOSE e \in d.embeddings : e.chunk_id = c.id).embedding_vector)
    IN IF Len(ordered) = 0 THEN None
       ELSE Some([dim |-> vector(ordered[1]).dim,
                  rows |-> [k \in 1..Len(ordered) |-> vector(ordered[k]).val]])

\* a plain INSERT, which keeps the row the document already has
InsertFaissIndex(d, document_id, index_data, dimension) ==
    [d EXCEPT !.faiss_indices =
        @ \cup {[document_id |-> document_id, index_data |-> index_data,
                 dimension |-> dimension]}]

\* store_faiss_index: INSERT OR REPLACE, UNIQUE(document_id)
store_faiss_index(d, document_id, index_data, dimension) ==
    [d EXCEPT !.faiss_indices =
        {r \in @ : r.document_id # document_id} \cup
        {[document_id |-> document_id, index_data |-> index_data, dimension |-> dimension]}]

\* get_faiss_index: None, or the index_data of the document's row
get_faiss_index(d, document_id) ==
    LET rows == {r \in d.faiss_indices : r.document_id = document_id}
    IN IF rows = {} THEN None ELSE Some((CHOOSE r \in rows : TRUE).index_data)

----------------------------------------------------------------------------
(* Legacy files *)

\* open(txt_file, "r", encoding="utf-8").read(): the characters of the file
ReadText(bytes) == bytes

\* A .npy file is [valid, array]: np.load raises on one that is not valid.

\* migrate_from_files: [db, result, raised]. Each store_* call commits on
\* its own, so what was stored before np.load raises stays stored.
migrate_from_files(d, fs, filename) ==
    LET txt_file == TxtFile(filename)
        embeddings_file == EmbeddingsFile(filename)
        faiss_file == FaissFile(filename)
    IN IF ~Exists(fs, txt_file)
       THEN [db |-> d, result |-> FALSE, raised |-> FALSE]
       ELSE LET content == ReadText(Get(fs[txt_file]))
                chunks == split_into_chunks(content, DefaultMaxWords)
                stored == store_document(d, fs, filename, content, chunks)
                hasEmbeddings == Exists(fs, embeddings_file)
                npy == Get(fs[embeddings_file])
            IN IF hasEmbeddings /\ ~npy.valid
               THEN [db |-> stored.db, result |-> FALSE, raised |-> TRUE]
               ELSE LET d2 == IF hasEmbeddings
                              THEN store_embeddings(stored.db, stored.id, npy.array).db
                              ELSE stored.db
                        dimension == IF hasEmbeddings THEN npy.array.dim ELSE DefaultDimension
                        d3 == IF Exists(fs, faiss_file)
                              THEN store_faiss_index(d2, stored.id, Get(fs[faiss_file]), dimension)
                              ELSE d2
                    IN [db |-> d3, result |-> TRUE, raised |-> FALSE]

----------------------------------------------------------------------------
(* Inputs *)

TextAB == <<"a", " ", "b">>

TextC == <<"c">>

\* the bytes of a PDF whose one page holds the text
Pdf(text) == <<"%PDF">> \o text

\* what a source file may hold
SourceContents(filename) ==
    IF IsPdf(filename) THEN {Pdf(TextAB), Pdf(TextC)} ELSE {TextAB, TextC}

\* (content_text, chunks) arguments of store_document: the callers in the
\* tests pass any chunk list; the last two make the call raise
StoreInputs ==
    { [content_text |-> TextAB, chunks |-> << <<"a">>, <<"b">> >>],
      [content_text |-> <<>>,   chunks |-> <<>>],
      [content_text |-> TextC,  chunks |-> << TextC, NotAStr >>],
      [content_text |-> NotAStr, chunks |-> <<>>] }

\* embeddings arguments: float64 matrices of 0, 1 and 2 rows
Matrices ==
    {[dim |-> DefaultDimension, rows |-> r] : r \in {<<2, 2>>, <<1, 2>>, <<2>>, <<>>}}

\* index_data arguments
IndexBlobs ==
    { [magic |-> "faiss", dim |-> DefaultDimension, rows |-> <<2>>],
      [magic |-> "faiss", dim |-> DefaultDimension, rows |-> <<0, 2>>] }

NoOp ==
    [op |-> "none", filename |-> "", document_id |-> 0, content_text |-> <<>>,
     chunks |-> <<>>, embeddings |-> [dim |-> 0, rows |-> <<>>],
     index_data |-> [magic |-> "", dim |-> 0, rows |-> <<>>], max_words |-> 0,
     ok |-> TRUE]

\* the main program before it is started: no variable is bound
Idle ==
    [pc |-> "idle", file |-> "", document_id |-> 0, file_text |-> <<>>, chunks |-> <<>>,
     embeddings |-> None, faiss_index_bytes |-> None, faiss_index |-> None, raised |-> "",
     ready |-> FALSE, indices |-> <<>>, relevant_chunks |-> <<>>]

\* nothing observed yet
NoRuns ==
    [runs |-> 0, envSteps |-> 0, calls |-> 0, start |-> "", legacy |-> FALSE,
     legacyText |-> FALSE, touched |-> FALSE, failure |-> "none", prev |-> Idle,
     prevTouched |-> FALSE, startDb |-> EmptyDb]

----------------------------------------------------------------------------
(* Calls of the store, and other processes writing files *)

\* another process writes a source file
WriteFile(filename, bytes) ==
    /\ disk' = [disk EXCEPT ![filename] = Some(bytes)]
    /\ lastOp' = [NoOp EXCEPT !.op = "write_file", !.filename = filename]
    /\ UNCHANGED <<db, lastStored, proc, obs>>

\* another process removes a source file
DeleteFile(filename) ==
    /\ Exists(disk, filename)
    /\ disk' = [disk EXCEPT ![filename] = None]
    /\ lastOp' = [NoOp EXCEPT !.op = "delete_file", !.filename = filename]
    /\ UNCHANGED <<db, lastStored, proc, obs>>

StoreDocument(filename, in) ==
    /\ db.sqlite_sequence.documents < MaxDocId
    /\ LET r == store_document(db, disk, filename, in.content_text, in.chunks)
       IN /\ db' = r.db
          /\ lastOp' = [NoOp EXCEPT !.op = "store_document", !.filename = filename,
                                    !.content_text = in.content_text, !.chunks = in.chunks,
                                    !.document_id = r.id, !.ok = r.ok]
          /\ lastStored' = IF r.ok
                           THEN [lastStored EXCEPT ![filename] =
                                    Some([content_text |-> in.content_text, chunks |-> in.chunks])]
                           ELSE lastStored
    /\ UNCHANGED <<disk, proc, obs>>

StoreEmbeddings(document_id, embeddings) ==
    /\ LET r == store_embeddings(db, document_id, embeddings)
       IN /\ db' = r.db
          /\ lastOp' = [NoOp EXCEPT !.op = "store_embeddings", !.document_id = document_id,
                                    !.embeddings = embeddings, !.ok = r.ok]
    /\ UNCHANGED <<disk, lastStored, proc, obs>>

StoreFaissIndex(document_id, index_data) ==
    /\ db' = store_faiss_index(db, document_id, index_data, index_data.dim)
    /\ lastOp' = [NoOp EXCEPT !.op = "store_faiss_index", !.document_id = document_id,
                              !.index_data = index_data,
                              !.embeddings = [dim |-> index_data.dim, rows |-> index_data.rows]]
    /\ UNCHANGED <<disk, lastStored, proc, obs>>

----------------------------------------------------------------------------
(* Spec: the store under any sequence of calls. a.txt is on disk, b.pdf is *)
(* not (store_document is called for files that do not exist in            *)
(* test_database_performance).                                             *)

Init ==
    /\ db = EmptyDb
    /\ disk = [p \in Paths |-> IF p = "a.txt" THEN Some(TextAB) ELSE None]
    /\ lastOp = NoOp
    /\ lastStored = [f \in Files |-> None]
    /\ proc = Idle
    /\ obs = NoRuns

Next ==
    \/ \E f \in Files : \E in \in StoreInputs : StoreDocument(f, in)
    \/ \E id \in 1..db.sqlite_sequence.documents : \E m \in Matrices : StoreEmbeddings(id, m)
    \/ \E id \in 1..db.sqlite_sequence.documents : \E b \in IndexBlobs : StoreFaissIndex(id, b)

Spec == Init /\ [][Next]_vars

----------------------------------------------------------------------------
(* SpecFiles: store_document while other processes write and remove the    *)
(* source files.                                                           *)

InitFiles ==
    /\ db = EmptyDb
    /\ disk = [p \in Paths |-> None]
    /\ lastOp = NoOp
    /\ lastStored = [f \in Files |-> None]
    /\ proc = Idle
    /\ obs = NoRuns

NextFiles ==
    \/ \E f \in Files : \E bytes \in SourceContents(f) : WriteFile(f, bytes)
    \/ \E f \in Files : DeleteFile(f)
    \/ \E f \in Files : \E in \in StoreInputs : StoreDocument(f, in)

SpecFiles == InitFiles /\ [][NextFiles]_vars

----------------------------------------------------------------------------
(* The collaborators of the main program *)

\* extract_text_pdf: the text of every page, each followed by "\n"
extract_text_pdf(bytes) == Tail(bytes) \o <<"\n">>

\* embedding_model.encode(chunks): one float32 vector per chunk, a function
\* of the chunk's text (here of its number of words); of an empty list, an
\* empty 1-D array, which has no shape[1]
Encode(chunks_list) ==
    IF Len(chunks_list) = 0 THEN [dim |-> 0, rows |-> <<>>]
    ELSE [dim |-> DefaultDimension,
          rows |-> [k \in 1..Len(chunks_list) |-> 2 * Len(split(chunks_list[k]))]]

\* np.array(embeddings).astype("float32")
MatrixAsFloat32(m) == [dim |-> m.dim, rows |-> [k \in 1..Len(m.rows) |-> AsFloat32(m.rows[k])]]

\* create_faiss_index: an IndexFlatL2 holding the rows in order; None when
\* embeddings_array.shape[1] raises
create_faiss_index(embeddings_array) ==
    IF embeddings_array.dim = 0 THEN None
    ELSE Some([dim |-> embeddings_array.dim, rows |-> embeddings_array.rows])

\* faiss_index_to_bytes: faiss.write_index
faiss_index_to_bytes(index) == [magic |-> "faiss", dim |-> index.dim, rows |-> index.rows]

\* faiss_index_from_bytes: faiss.read_index; None when it raises on bytes
\* that are no index
faiss_index_from_bytes(index_bytes) ==
    IF index_bytes.magic = "faiss"
    THEN Some([dim |-> index_bytes.dim, rows |-> index_bytes.rows])
    ELSE None

\* k of the search of the main program
TopK == 20

Abs(x) == IF x < 0 THEN -x ELSE x

\* the orders in which IndexFlatL2.search may return the vectors of the
\* index for a query: by distance, vectors at the same distance in any order
SearchOrders(index, query) ==
    LET n == Len(index.rows)
    IN {p \in [1..n -> 1..n] :
           /\ \A i, j \in 1..n : i # j => p[i] # p[j]
           /\ \A i, j \in 1..n :
                 i < j => Abs(index.rows[p[i]] - query) <= Abs(index.rows[p[j]] - query)}

\* index.search(emb_question, k)[1][0]: the 0-based labels of the k nearest
\* vectors, -1 where the index has fewer than k vectors
IndexSearch(index, order, k) ==
    [j \in 1..k |-> IF j <= Len(order) THEN order[j] - 1 ELSE -1]

\* chunks_list[i] is defined for -len <= i < len
InRange(list, i) == -Len(list) <= i /\ i < Len(list)

PyGet(list, i) == IF i >= 0 THEN list[i + 1] ELSE list[Len(list) + i + 1]

\* search_relevant_chunks, the index answering in the given order: None
\* when chunks_list[i] raises IndexError
search_relevant_chunks(order, index, chunks_list, k) ==
    LET I == IndexSearch(index, order, k)
    IN IF \A j \in 1..k : InRange(chunks_list, I[j])
       THEN Some([j \in 1..k |-> PyGet(chunks_list, I[j])])
       ELSE None

\* bytes that are no index
JunkBytes == [magic |-> "junk", dim |-> 0, rows |-> <<>>]

\* `not embeddings` at line 143: "raise" for an array of more than one
\* element (ValueError: the truth value is ambiguous)
NotEmbeddings(embeddings) ==
    IF IsNone(embeddings) THEN "true"
    ELSE LET size == Get(embeddings).dim * Len(Get(embeddings).rows)
         IN IF size > 1 THEN "raise"
            ELSE IF size = 0 THEN "true"
            ELSE IF Get(embeddings).rows[1] = 0 THEN "true" ELSE "false"

----------------------------------------------------------------------------
(* The main program of chat-pdf.py, one action per stretch between two     *)
(* reads of the file system                                                *)

Ended == {"idle", "ready", "answered", "crashed", "exit"}

\* what the store holds for the file when a run starts
StartKind(f) ==
    IF IsNone(get_document_by_filename(db, f)) THEN "unseen"
    ELSE IF document_exists(db, disk, f) THEN "fresh"
    ELSE "stale"

Crash(exception) == [proc EXCEPT !.pc = "crashed", !.raised = exception]

\* lines 89-98: the file name is read; any other extension exits with 1
Start(input) ==
    /\ proc.pc \in Ended
    /\ obs.runs < MaxRuns
    /\ proc' = IF input \in Files
               THEN [Idle EXCEPT !.pc = "check", !.file = input]
               ELSE [Idle EXCEPT !.pc = "exit", !.file = input]
    /\ obs' = [obs EXCEPT !.runs = @ + 1, !.calls = 0, !.touched = FALSE, !.failure = "none",
                          !.start = IF input \in Files THEN StartKind(input) ELSE "",
                          !.legacy = /\ input \in Files
                                     /\ (Exists(disk, EmbeddingsFile(input)) \/
                                         Exists(disk, FaissFile(input))),
                          !.legacyText = input \in Files /\ Exists(disk, TxtFile(input)),
                          !.prev = proc, !.prevTouched = obs.touched, !.startDb = db]
    /\ UNCHANGED <<db, disk, lastOp, lastStored>>

\* lines 101-104
Check ==
    /\ proc.pc = "check"
    /\ proc' = IF document_exists(db, disk, proc.file)
               THEN LET doc == Get(get_document_by_filename(db, proc.file))
                    IN [proc EXCEPT !.pc = "lookup", !.document_id = doc.document_id,
                                    !.file_text = doc.content_text, !.chunks = doc.chunks]
               ELSE [proc EXCEPT !.pc = "extract"]
    /\ UNCHANGED <<db, disk, lastOp, lastStored, obs>>

\* lines 105-123: the text is read (and cached beside a PDF) and split
Extract ==
    /\ proc.pc = "extract"
    /\ IF ~Exists(disk, proc.file)
       THEN /\ proc' = IF IsPdf(proc.file)
                       THEN Crash("FileNotFoundError")
                       ELSE [proc EXCEPT !.pc = "exit"]
            /\ disk' = disk
       ELSE LET file_text == IF IsPdf(proc.file)
                             THEN extract_text_pdf(Get(disk[proc.file]))
                             ELSE ReadText(Get(disk[proc.file]))
                txt_cache == TxtFile(proc.file)
            IN /\ proc' = [proc EXCEPT !.pc = "store", !.file_text = file_text,
                                       !.chunks = split_into_chunks(file_text, DefaultMaxWords)]
               /\ disk' = IF IsPdf(proc.file) /\ ~Exists(disk, txt_cache)
                          THEN [disk EXCEPT ![txt_cache] = Some(file_text)]
                          ELSE disk
    /\ UNCHANGED <<db, lastOp, lastStored, obs>>

\* line 126
Store ==
    /\ proc.pc = "store"
    /\ LET r == store_document(db, disk, proc.file, proc.file_text, proc.chunks)
       IN /\ db' = r.db
          /\ proc' = [proc EXCEPT !.pc = "lookup", !.document_id = r.id]
    /\ UNCHANGED <<disk, lastOp, lastStored, obs>>

\* lines 133-143: the cached embeddings and index are looked up
Lookup ==
    /\ proc.pc = "lookup"
    /\ LET embeddings == get_embeddings(db, proc.document_id)
           faiss_index_bytes == get_faiss_index(db, proc.document_id)
           read == [proc EXCEPT !.embeddings = embeddings,
                                !.faiss_index_bytes = faiss_index_bytes]
       IN proc' =
            IF ~IsNone(embeddings) /\ ~IsNone(faiss_index_bytes)
            THEN LET index == faiss_index_from_bytes(Get(faiss_index_bytes))
                 IN IF IsNone(index)
                    THEN [read EXCEPT !.pc = "crashed", !.raised = "RuntimeError"]
                    ELSE [read EXCEPT !.pc = "ready", !.ready = TRUE, !.faiss_index = index]
            ELSE IF NotEmbeddings(embeddings) = "raise"
                 THEN [read EXCEPT !.pc = "crashed", !.raised = "ValueError"]
                 ELSE IF NotEmbeddings(embeddings) = "true"
                      THEN [read EXCEPT !.pc = "migrate"]
                      ELSE [read EXCEPT !.pc = "generate"]
    /\ UNCHANGED <<db, disk, lastOp, lastStored, obs>>

\* line 143: db.migrate_from_files(file)
Migrate ==
    /\ proc.pc = "migrate"
    /\ LET m == migrate_from_files(db, disk, proc.file)
       IN /\ db' = m.db
          /\ proc' = IF m.raised THEN Crash("ValueError")
                     ELSE IF m.result THEN [proc EXCEPT !.pc = "migrated"]
                     ELSE [proc EXCEPT !.pc = "generate"]
    /\ UNCHANGED <<disk, lastOp, lastStored, obs>>

\* lines 144-154: after a migration the embeddings and the index are read
\* again, under the document_id the program holds
Migrated ==
    /\ proc.pc = "migrated"
    /\ LET embeddings == get_embeddings(db, proc.document_id)
           faiss_index_bytes == get_faiss_index(db, proc.document_id)
           read == [proc EXCEPT !.embeddings = embeddings,
                                !.faiss_index_bytes = faiss_index_bytes]
       IN IF ~IsNone(faiss_index_bytes)
          THEN LET index == faiss_index_from_bytes(Get(faiss_index_bytes))
               IN /\ proc' = IF IsNone(index)
                             THEN [read EXCEPT !.pc = "crashed", !.raised = "RuntimeError"]
                             ELSE [read EXCEPT !.pc = "ready", !.ready = TRUE,
                                               !.faiss_index = index]
                  /\ db' = db
          ELSE IF IsNone(embeddings)
               THEN /\ proc' = [read EXCEPT !.pc = "crashed", !.raised = "AttributeError"]
                    /\ db' = db
               ELSE LET embeddings_array == MatrixAsFloat32(Get(embeddings))
                        index == create_faiss_index(embeddings_array)
                    IN IF IsNone(index)
                       THEN /\ proc' = [read EXCEPT !.pc = "crashed", !.raised = "IndexError"]
                            /\ db' = db
                       ELSE /\ proc' = [read EXCEPT !.pc = "ready", !.ready = TRUE,
                                                    !.faiss_index = index]
                            /\ db' = store_faiss_index(db, proc.document_id,
                                                       faiss_index_to_bytes(Get(index)),
                                                       embeddings_array.dim)
    /\ UNCHANGED <<disk, lastOp, lastStored, obs>>

\* the embeddings stored as soon as they are computed, before the index is
\* built
GenerateStoreFirst(failure) ==
    /\ proc.pc = "generate"
    /\ obs' = [obs EXCEPT !.calls = @ + 1, !.failure = failure]
    /\ LET embeddings == MatrixAsFloat32(Encode(proc.chunks))
           index == create_faiss_index(embeddings)
           stored == store_embeddings(db, proc.document_id, embeddings).db
       IN IF failure = "embed"
          THEN /\ proc' = Crash("ModelError")
               /\ db' = db
          ELSE IF failure = "index" \/ IsNone(index)
               THEN /\ proc' = [proc EXCEPT !.pc = "crashed", !.raised = "IndexError",
                                            !.embeddings = Some(embeddings)]
                    /\ db' = stored
               ELSE /\ proc' = [proc EXCEPT !.pc = "ready", !.ready = TRUE,
                                            !.embeddings = Some(embeddings),
                                            !.faiss_index = index]
                    /\ db' = store_faiss_index(stored, proc.document_id,
                                               faiss_index_to_bytes(Get(index)), embeddings.dim)
    /\ UNCHANGED <<disk, lastOp, lastStored>>

\* lines 156-164: the embeddings are computed, the index is built, and both
\* are stored; the collaborators may fail
Generate(failure) ==
    /\ proc.pc = "generate"
    /\ obs' = [obs EXCEPT !.calls = @ + 1, !.failure = failure]
    /\ LET embeddings == MatrixAsFloat32(Encode(proc.chunks))
           index == create_faiss_index(embeddings)
       IN IF failure = "embed"
          THEN /\ proc' = Crash("ModelError")
               /\ db' = db
          ELSE IF failure = "index" \/ IsNone(index)
               THEN /\ proc' = [proc EXCEPT !.pc = "crashed", !.raised = "IndexError",
                                            !.embeddings = Some(embeddings)]
                    /\ db' = db
               ELSE /\ proc' = [proc EXCEPT !.pc = "ready", !.ready = TRUE,
                                            !.embeddings = Some(embeddings),
                                            !.faiss_index = index]
                    /\ db' = store_faiss_index(
                                 store_embeddings(db, proc.document_id, embeddings).db,
                                 proc.document_id, faiss_index_to_bytes(Get(index)),
                                 embeddings.dim)
    /\ UNCHANGED <<disk, lastOp, lastStored>>

\* the questions a user asks
Questions == {TextAB, TextC}

\* lines 166-189: the question is read and the chunks nearest to it are
\* looked up; the answer printed from them changes nothing
Ask(question) ==
    /\ proc.pc = "ready"
    /\ LET index == Get(proc.faiss_index)
           emb_question == Encode(<<question>>)
       IN IF emb_question.dim # index.dim
          THEN proc' = Crash("AssertionError")
          ELSE \E order \in SearchOrders(index, emb_question.rows[1]) :
                  LET found == search_relevant_chunks(order, index, proc.chunks, TopK)
                  IN proc' = IF IsNone(found)
                             THEN [proc EXCEPT !.pc = "crashed", !.raised = "IndexError",
                                               !.indices = IndexSearch(index, order, TopK)]
                             ELSE [proc EXCEPT !.pc = "answered",
                                               !.indices = IndexSearch(index, order, TopK),
                                               !.relevant_chunks = Get(found)]
    /\ UNCHANGED <<db, disk, lastOp, lastStored, obs>>

\* another process writes the source file of a run
FlowWriteFile(filename, bytes) ==
    /\ obs.envSteps < MaxEnvSteps
    /\ disk[filename] # Some(bytes)
    /\ disk' = [disk EXCEPT ![filename] = Some(bytes)]
    /\ obs' = [obs EXCEPT !.envSteps = @ + 1, !.touched = TRUE]
    /\ UNCHANGED <<db, lastOp, lastStored, proc>>

\* another process removes a file
FlowDeleteFile(path) ==
    /\ obs.envSteps < MaxEnvSteps
    /\ Exists(disk, path)
    /\ disk' = [disk EXCEPT ![path] = None]
    /\ obs' = [obs EXCEPT !.envSteps = @ + 1, !.touched = TRUE]
    /\ UNCHANGED <<db, lastOp, lastStored, proc>>

----------------------------------------------------------------------------
(* SpecFlow: runs of the main program on one book, which may have legacy   *)
(* files beside it, while other processes write and remove files           *)

\* a text of DefaultMaxWords + 1 words: two chunks
TextLong == [i \in 1..(2 * DefaultMaxWords + 1) |-> IF i % 2 = 1 THEN "a" ELSE " "]

Npy(rows) == [valid |-> TRUE, array |-> [dim |-> DefaultDimension, rows |-> rows]]

\* a file that np.load refuses
JunkNpy == [valid |-> FALSE, array |-> [dim |-> 0, rows |-> <<>>]]

\* the legacy files a former version may have left beside the book: the
\* embeddings of a one-chunk or of a two-chunk text, and the index built
\* from them
LegacyEmbeddings == {None, Some(JunkNpy), Some(Npy(<<4>>)), Some(Npy(<<400, 2>>))}

LegacyIndex(npy) ==
    {None, Some(JunkBytes),
     Some(faiss_index_to_bytes(
              IF IsNone(npy) \/ ~Get(npy).valid
              THEN [dim |-> DefaultDimension, rows |-> <<4>>]
              ELSE Get(npy).array))}

\* the book and the files beside it when the behaviour starts
InitialDisks ==
    {[p \in Paths |-> IF p = "a.txt" THEN Some(text)
                      ELSE IF p = EmbeddingsFile("a.txt") THEN npy
                      ELSE IF p = FaissFile("a.txt") THEN index
                      ELSE None] :
        <<text, npy, index>> \in
            {<<t, n, x>> \in {TextAB, TextLong} \X LegacyEmbeddings \X
                             UNION {LegacyIndex(n) : n \in LegacyEmbeddings} :
                 x \in LegacyIndex(n)}}
    \cup
    {[p \in Paths |-> IF p = "b.pdf" THEN Some(Pdf(TextAB))
                      ELSE IF p = TxtFile("b.pdf") THEN cache
                      ELSE IF p = EmbeddingsFile("b.pdf") THEN npy
                      ELSE IF p = FaissFile("b.pdf") THEN index
                      ELSE None] :
        <<cache, npy, index>> \in
            {<<c, n, x>> \in {None, Some(TextC)} \X {None, Some(Npy(<<4>>))} \X
                             {None, Some(faiss_index_to_bytes([dim |-> DefaultDimension,
                                                               rows |-> <<4>>]))} : TRUE}}

InitFlow ==
    /\ db = EmptyDb
    /\ disk \in InitialDisks
    /\ lastOp = NoOp
    /\ lastStored = [f \in Files |-> None]
    /\ proc = Idle
    /\ obs = NoRuns

NextFlow ==
    \/ \E input \in Files \cup {"c.doc"} : Start(input)
    \/ Check
    \/ Extract
    \/ Store
    \/ Lookup
    \/ Migrate
    \/ Migrated
    \/ \E failure \in {"none", "embed", "index"} : Generate(failure)
    \/ \E question \in Questions : Ask(question)
    \/ \E f \in Files : \E bytes \in SourceContents(f) : FlowWriteFile(f, bytes)
    \/ \E p \in Paths : FlowDeleteFile(p)

SpecFlow == InitFlow /\ [][NextFlow]_vars

----------------------------------------------------------------------------
(* SpecSplit: split_into_chunks applied to a text, with any max_words *)

Alphabet == {"a", "b", " ", "\n"}

Texts == UNION {[1..n -> Alphabet] : n \in 0..MaxTextLen}

SplitIntoChunks(max_words) ==
    /\ lastOp.op \in {"text", "split_into_chunks"}
    /\ lastOp' = [lastOp EXCEPT !.op = "split_into_chunks", !.max_words = max_words,
                                !.chunks = split_into_chunks(lastOp.content_text, max_words)]
    /\ UNCHANGED <<db, disk, lastStored, proc, obs>>

InitSplit ==
    /\ db = EmptyDb
    /\ disk = [p \in Paths |-> None]
    /\ lastOp \in {[NoOp EXCEPT !.op = "text", !.content_text = t] : t \in Texts}
    /\ lastStored = [f \in Files |-> None]
    /\ proc = Idle
    /\ obs = NoRuns

NextSplit == \E max_words \in 1..MaxWords : SplitIntoChunks(max_words)

SpecSplit == InitSplit /\ [][NextSplit]_vars

----------------------------------------------------------------------------
(* SpecMigrate: the store under any sequence of calls, migrate_from_files  *)
(* among them, with legacy files beside a.txt                              *)

\* a call of migrate_from_files
MigrateFromFiles(filename) ==
    /\ db.sqlite_sequence.documents < MaxDocId
    /\ LET m == migrate_from_files(db, disk, filename)
           txt_file == TxtFile(filename)
           content == ReadText(Get(disk[txt_file]))
       IN /\ db' = m.db
          /\ lastOp' = [NoOp EXCEPT !.op = "migrate_from_files", !.filename = filename,
                                    !.document_id = LastDocumentId(m.db),
                                    !.ok = ~m.raised]
          /\ lastStored' = IF Exists(disk, txt_file)
                           THEN [lastStored EXCEPT ![filename] =
                                    Some([content_text |-> content,
                                          chunks |-> split_into_chunks(content,
                                                                       DefaultMaxWords)])]
                           ELSE lastStored
    /\ UNCHANGED <<disk, proc, obs>>

\* a two-chunk text with its legacy embeddings and index, or a one-chunk
\* text with an embeddings file that np.load refuses
MigrateDisks ==
    {fs \in InitialDisks :
        \/ /\ fs["a.txt"] = Some(TextLong)
           /\ fs[EmbeddingsFile("a.txt")] = Some(Npy(<<400, 2>>))
           /\ fs[FaissFile("a.txt")] # None
           /\ fs[FaissFile("a.txt")] # Some(JunkBytes)
        \/ /\ fs["a.txt"] = Some(TextAB)
           /\ fs[EmbeddingsFile("a.txt")] = Some(JunkNpy)
           /\ fs[FaissFile("a.txt")] = None}

InitMigrate ==
    /\ db = EmptyDb
    /\ disk \in MigrateDisks
    /\ lastOp = NoOp
    /\ lastStored = [f \in Files |-> None]
    /\ proc = Idle
    /\ obs = NoRuns

NextMigrate ==
    \/ \E f \in Files : \E in \in StoreInputs : StoreDocument(f, in)
    \/ \E id \in 1..db.sqlite_sequence.documents : \E m \in Matrices : StoreEmbeddings(id, m)
    \/ \E id \in 1..db.sqlite_sequence.documents : \E b \in IndexBlobs : StoreFaissIndex(id, b)
    \/ \E f \in Files : MigrateFromFiles(f)

SpecMigrate == InitMigrate /\ [][NextMigrate]_vars

----------------------------------------------------------------------------
(* Claims about the store *)

DocumentIds == {r.id : r \in db.documents}

\* a documents row holds the filename with the hash of the bytes now on disk
StoredFingerprintIsCurrent(f) ==
    \E r \in db.documents :
        r.filename = f /\ Exists(disk, f) /\ r.file_hash = Sha256(Get(disk[f]))

\* the step is a committed store_document(f, ...)
StoresAgain(f) ==
    lastOp'.op = "store_document" /\ lastOp'.filename = f /\ lastOp'.ok

\* C1, as amended: document_exists(f) is true exactly when a documents row
\* of f holds the fingerprint of the bytes now on disk; it is true right
\* after store_document on an existing file, a change of the bytes of a
\* fresh file makes it false, and from false it becomes true only when f is
\* stored again or when the bytes of the file change (back to the
\* fingerprinted ones).
C1_DocumentExistsIffFresh ==
    /\ [](\A f \in Files : document_exists(db, disk, f) <=> StoredFingerprintIsCurrent(f))
    /\ []((lastOp.op = "store_document" /\ lastOp.ok /\ Exists(disk, lastOp.filename))
            => document_exists(db, disk, lastOp.filename))
    /\ [][\A f \in Files :
            /\ (document_exists(db, disk, f) /\ disk'[f] # disk[f])
                   => ~document_exists(db', disk', f)
            /\ (~document_exists(db, disk, f) /\ document_exists(db', disk', f))
                   => (StoresAgain(f) \/ disk'[f] # disk[f])]_vars

\* C1 witness: a stored file was changed by another process and is not fresh
C1_Witness ==
    /\ lastOp.op = "write_file"
    /\ \E r \in db.documents : r.filename = lastOp.filename /\ r.file_hash # EmptyHash
    /\ ~document_exists(db, disk, lastOp.filename)

\* C1 as stated: once document_exists(f) is false it stays false until f is
\* stored again.
C1_StaysFalseUntilStored ==
    [][\A f \in Files :
          (~document_exists(db, disk, f) /\ document_exists(db', disk', f))
              => StoresAgain(f)]_vars

\* C5 as stated: store_embeddings with a number of vectors that differs from
\* the number of chunks of the document raises and leaves the embeddings
\* table as it was.
C5_MismatchRejected ==
    [][(/\ lastOp'.op = "store_embeddings"
        /\ Len(lastOp'.embeddings.rows) # Cardinality(ChunksOf(db, lastOp'.document_id)))
          => (~lastOp'.ok /\ db'.embeddings = db.embeddings)]_vars

\* C6: there is at most one documents row per filename, and
\* get_document_by_filename(f) is None until f is stored and from then on
\* holds the text and the chunk list of the last committed store_document(f).
C6_LastStoreWins ==
    \A f \in Files :
        /\ Cardinality({r \in db.documents : r.filename = f}) <= 1
        /\ IsNone(lastStored[f]) <=> IsNone(get_document_by_filename(db, f))
        /\ ~IsNone(lastStored[f]) =>
              /\ Get(get_document_by_filename(db, f)).content_text = Get(lastStored[f]).content_text
              /\ Get(get_document_by_filename(db, f)).chunks = Get(lastStored[f]).chunks

\* C6 witness: a filename was stored again with another chunk list, and the
\* chunks of its earlier version are still in the chunks table
C6_Witness ==
    /\ lastOp.op = "store_document" /\ lastOp.ok /\ lastOp.chunks = <<>>
    /\ \E c \in db.chunks : c.document_id \notin DocumentIds
    /\ Cardinality(db.documents) = 1

\* C7 as stated: every chunks row references a documents row, every
\* embeddings row a chunks row, every faiss_indices row a documents row.
C7_NoOrphanRows ==
    /\ \A c \in db.chunks : c.document_id \in DocumentIds
    /\ \A e \in db.embeddings : e.chunk_id \in {c.id : c \in db.chunks}
    /\ \A x \in db.faiss_indices : x.document_id \in DocumentIds

\* C8: a store_document call that raises leaves the database as it was
\* before the call, and get_document_by_filename returns what it returned.
C8_FailedStoreRollsBack ==
    [][(lastOp'.op = "store_document" /\ ~lastOp'.ok)
          => /\ db' = db
             /\ \A f \in Files :
                   get_document_by_filename(db', f) = get_document_by_filename(db, f)]_vars

\* C8 witness: store_document raised on its second chunk, for a filename
\* that had a document
C8_Witness ==
    /\ lastOp.op = "store_document" /\ ~lastOp.ok /\ Len(lastOp.chunks) = 2
    /\ ~IsNone(get_document_by_filename(db, lastOp.filename))

\* C9: right after a committed store_document(f, text, chunks) that returned
\* d, get_document_by_filename(f) is (d, text, chunks); it is None for a
\* filename that was never stored.
C9_GetReturnsWhatWasStored ==
    /\ (lastOp.op = "store_document" /\ lastOp.ok)
          => get_document_by_filename(db, lastOp.filename) =
                Some([document_id |-> lastOp.document_id,
                      content_text |-> lastOp.content_text,
                      chunks |-> lastOp.chunks])
    /\ \A f \in Files : IsNone(lastStored[f]) => IsNone(get_document_by_filename(db, f))

\* C9 witness: a document of two chunks was stored while the other filename
\* never was
C9_Witness ==
    /\ lastOp.op = "store_document" /\ lastOp.ok /\ Len(lastOp.chunks) = 2
    /\ \E f \in Files : IsNone(lastStored[f])

\* the call was store_embeddings(d, V) with one row of V per chunk of d
StoredOnePerChunk ==
    /\ lastOp.op = "store_embeddings"
    /\ Len(lastOp.embeddings.rows) = Cardinality(ChunksOf(db, lastOp.document_id))

\* C10 as stated: after store_embeddings(d, V) with one vector per chunk,
\* get_embeddings(d) is exactly V.
C10_GetReturnsExactlyV ==
    StoredOnePerChunk => get_embeddings(db, lastOp.document_id) = Some(lastOp.embeddings)

\* the embeddings row of the chunk with the given chunk_index
EmbeddingRowsOf(document_id, chunk_index) ==
    {e \in db.embeddings :
        \E c \in ChunksOf(db, document_id) : c.chunk_index = chunk_index /\ e.chunk_id = c.id}

\* C10, as amended: after store_embeddings(d, V) with one vector per chunk
\* of a document that has chunks, get_embeddings(d) is V converted to
\* float32, and the one embeddings row of the chunk of ordinal i holds row i;
\* this holds after a later store_embeddings(d, V2) as well, so V2 replaces
\* V; get_embeddings is None exactly for the documents whose chunks have no
\* embeddings row.
C10_GetReturnsFloat32OfV ==
    /\ (StoredOnePerChunk /\ Len(lastOp.embeddings.rows) >= 1)
          => /\ get_embeddings(db, lastOp.document_id) =
                   Some([dim |-> lastOp.embeddings.dim,
                         rows |-> [k \in 1..Len(lastOp.embeddings.rows) |->
                                      AsFloat32(lastOp.embeddings.rows[k])]])
             /\ \A k \in 1..Len(lastOp.embeddings.rows) :
                   EmbeddingRowsOf(lastOp.document_id, k - 1) =
                       {[chunk_id |-> (CHOOSE c \in ChunksOf(db, lastOp.document_id) :
                                          c.chunk_index = k - 1).id,
                         embedding_vector |->
                             PickleDumps([dim |-> lastOp.embeddings.dim,
                                          val |-> AsFloat32(lastOp.embeddings.rows[k])])]}
    /\ \A id \in 1..db.sqlite_sequence.documents :
          IsNone(get_embeddings(db, id)) <=>
              (\A c \in ChunksOf(db, id) : \A e \in db.embeddings : e.chunk_id # c.id)

\* C10 witness: a float64 matrix of two rows was stored for a document of
\* two chunks and came back as float32
C10_Witness ==
    /\ StoredOnePerChunk
    /\ lastOp.embeddings.rows = <<1, 2>>
    /\ get_embeddings(db, lastOp.document_id) = Some([dim |-> DefaultDimension, rows |-> <<0, 2>>])

----------------------------------------------------------------------------
(* Claims about the main program *)

\* a run of the main program on a supported file has ended, no other process
\* wrote or removed a file during it, and no collaborator failed
CleanRunEnded ==
    /\ proc.pc \in Ended \ {"idle"}
    /\ proc.file \in Files
    /\ ~obs.touched
    /\ obs.failure = "none"

\* the text the source file of the run holds now
CurrentText ==
    IF IsPdf(proc.file) THEN extract_text_pdf(Get(disk[proc.file]))
    ELSE ReadText(Get(disk[proc.file]))

\* C2: a run on an unseen file that exists, with no legacy embeddings or
\* index file beside it and no collaborator failure, ends in Ready, having
\* called the embedding model once on all chunks, with the document, its
\* chunks, one embedding per chunk and the index stored under the live id.
C2_UnseenReachesReady ==
    (/\ CleanRunEnded
     /\ obs.start = "unseen"
     /\ ~obs.legacy
     /\ Exists(disk, proc.file))
    => /\ proc.ready
       /\ obs.calls = 1
       /\ LET doc == get_document_by_filename(db, proc.file)
          IN /\ ~IsNone(doc)
             /\ Get(doc).chunks = proc.chunks
             /\ ~IsNone(get_embeddings(db, Get(doc).document_id))
             /\ Len(Get(get_embeddings(db, Get(doc).document_id)).rows) = Len(proc.chunks)
             /\ ~IsNone(get_faiss_index(db, Get(doc).document_id))

\* C3: the second of two runs in a row on the same file, with no legacy
\* embeddings or index file beside it and nothing having written or removed
\* a file since the behaviour began, ends in Ready without a call to the
\* embedding model, with the chunks and the index of the first.
C3_SecondRunIsIdle ==
    (/\ CleanRunEnded
     /\ obs.runs >= 2
     /\ obs.envSteps = 0
     /\ ~obs.legacy
     /\ obs.prev.file = proc.file
     /\ Exists(disk, proc.file))
    => /\ proc.ready
       /\ obs.calls = 0
       /\ proc.chunks = obs.prev.chunks
       /\ proc.faiss_index = obs.prev.faiss_index

\* C4: a run that starts on a file whose stored fingerprint differs from the
\* file, with no legacy embeddings or index file beside it, ends in Ready
\* with the chunks, embeddings and index of the current content of the file.
C4_StaleIsReplacedInFull ==
    (/\ CleanRunEnded
     /\ obs.start = "stale"
     /\ ~obs.legacy
     /\ Exists(disk, proc.file))
    => /\ proc.ready
       /\ proc.chunks = split_into_chunks(CurrentText, DefaultMaxWords)
       /\ proc.embeddings = Some(MatrixAsFloat32(Encode(proc.chunks)))
       /\ proc.faiss_index = create_faiss_index(MatrixAsFloat32(Encode(proc.chunks)))

----------------------------------------------------------------------------
(* Claims about the stored index *)

IndexRowsOf(d, document_id) == {r \in d.faiss_indices : r.document_id = document_id}

\* C11: there is at most one stored index per document id; get_faiss_index
\* is None for every document at the start, a store_faiss_index(d, bytes)
\* makes get_faiss_index(d) return exactly these bytes and leaves the index
\* of every other document as it was, and no other call changes what
\* get_faiss_index returns.
C11_IndexIsLastStored ==
    /\ [](\A id \in 1..MaxDocId : Cardinality(IndexRowsOf(db, id)) <= 1)
    /\ (\A id \in 1..MaxDocId : IsNone(get_faiss_index(db, id)))
    /\ [][\A id \in 1..MaxDocId :
            IF lastOp'.op = "store_faiss_index" /\ lastOp'.document_id = id
            THEN get_faiss_index(db', id) = Some(lastOp'.index_data)
            ELSE get_faiss_index(db', id) = get_faiss_index(db, id)]_vars

\* an index was just stored over another one while another document keeps
\* a different index
C11_Witness ==
    /\ lastOp.op = "store_faiss_index"
    /\ Cardinality(db.faiss_indices) = 2
    /\ get_faiss_index(db, lastOp.document_id) = Some(lastOp.index_data)
    /\ \E id \in 1..MaxDocId : /\ id # lastOp.document_id
                               /\ ~IsNone(get_faiss_index(db, id))
                               /\ get_faiss_index(db, id) # Some(lastOp.index_data)

----------------------------------------------------------------------------
(* Claims about legacy files, failures and cache layers in the main program *)

\* the chunks of the text file beside the source of the run
LegacyChunks == split_into_chunks(ReadText(Get(disk[TxtFile(proc.file)])), DefaultMaxWords)

\* beside the source of the run there are a text file, an embeddings file
\* with one vector per chunk of that text, and an index file
LegacyComplete ==
    /\ obs.legacyText
    /\ Exists(disk, TxtFile(proc.file))
    /\ Exists(disk, EmbeddingsFile(proc.file))
    /\ Get(disk[EmbeddingsFile(proc.file)]).valid
    /\ Len(Get(disk[EmbeddingsFile(proc.file)]).array.rows) = Len(LegacyChunks)
    /\ Exists(disk, FaissFile(proc.file))
    /\ ~IsNone(faiss_index_from_bytes(Get(disk[FaissFile(proc.file)])))

\* C12: a run on an unseen file with complete legacy files beside it ends in
\* Ready without a call to the embedding model, the store holding a document
\* for the file with as many chunks as the legacy text, the legacy
\* embeddings and a non-empty index under its id.
C12_LegacyRunReachesReady ==
    (/\ CleanRunEnded
     /\ obs.start = "unseen"
     /\ Exists(disk, proc.file)
     /\ LegacyComplete)
    => /\ proc.ready
       /\ obs.calls = 0
       /\ LET doc == get_document_by_filename(db, proc.file)
          IN /\ ~IsNone(doc)
             /\ Len(Get(doc).chunks) = Len(LegacyChunks)
             /\ get_embeddings(db, Get(doc).document_id) =
                    Some(MatrixAsFloat32(Get(disk[EmbeddingsFile(proc.file)]).array))
             /\ ~IsNone(get_faiss_index(db, Get(doc).document_id))
             /\ Len(Get(get_faiss_index(db, Get(doc).document_id)).rows) > 0

----------------------------------------------------------------------------
(* Claims about split_into_chunks *)

\* the words of the chunks, in chunk order
RECURSIVE ChunkWords(_)
ChunkWords(chunks) ==
    IF Len(chunks) = 0 THEN <<>> ELSE split(Head(chunks)) \o ChunkWords(Tail(chunks))

\* C13: every chunk of split_into_chunks(T, M), M > 0, is non-empty and has
\* at most M words, and every chunk but the last has exactly M words.
C13_ChunkBound ==
    lastOp.op = "split_into_chunks" =>
        \A k \in 1..Len(lastOp.chunks) :
            /\ Len(lastOp.chunks[k]) > 0
            /\ Len(split(lastOp.chunks[k])) >= 1
            /\ Len(split(lastOp.chunks[k])) <= lastOp.max_words
            /\ k < Len(lastOp.chunks) => Len(split(lastOp.chunks[k])) = lastOp.max_words

\* a text of three words split with max_words = 2: a full chunk and a rest
C13_Witness ==
    /\ lastOp.op = "split_into_chunks"
    /\ lastOp.max_words = 2
    /\ Len(lastOp.chunks) = 2
    /\ Len(split(lastOp.chunks[1])) = 2
    /\ Len(split(lastOp.chunks[2])) = 1

\* C14: the words of the chunks of split_into_chunks(T, M), in chunk order,
\* are the words of T, whatever M > 0 is; a second call gives the same
\* chunks; a text without a word gives no chunk.
C14_WordsPreserved ==
    lastOp.op = "split_into_chunks" =>
        /\ ChunkWords(lastOp.chunks) = split(lastOp.content_text)
        /\ \A m \in 1..MaxWords :
              ChunkWords(split_into_chunks(lastOp.content_text, m)) = ChunkWords(lastOp.chunks)
        /\ split_into_chunks(lastOp.content_text, lastOp.max_words) = lastOp.chunks
        /\ (\A i \in 1..Len(lastOp.content_text) : IsSpace(lastOp.content_text[i]))
              => lastOp.chunks = <<>>

\* a text that starts with whitespace and has two different words, in two
\* chunks
C14_Witness ==
    /\ lastOp.op = "split_into_chunks"
    /\ Len(lastOp.content_text) > 0
    /\ IsSpace(lastOp.content_text[1])
    /\ Len(lastOp.chunks) = 2
    /\ lastOp.chunks[1] # lastOp.chunks[2]
    /\ ChunkWords(lastOp.chunks) = split(lastOp.content_text)

\* C17: a run in which the embedding computation or the index build fails
\* ends crashed without having reached Ready; the failing step writes
\* nothing, so what was committed before it stays as it was, and the
\* embeddings and indices in the store are those of the start of the run.
C17_FailureWritesNothing ==
    /\ [](obs.failure # "none" =>
            /\ proc.pc = "crashed"
            /\ ~proc.ready
            /\ db.embeddings = obs.startDb.embeddings
            /\ db.faiss_indices = obs.startDb.faiss_indices)
    /\ [][(proc.pc = "generate" /\ proc'.pc = "crashed")
             => (~proc'.ready /\ db' = db)]_vars

\* the index build failed in a run that had stored its document before
C17_Witness ==
    /\ obs.failure = "index"
    /\ proc.pc = "crashed"
    /\ db.documents # obs.startDb.documents
    /\ \E r \in db.documents : r.id = proc.document_id

\* the document the store held for the file of the run when the run started
StartDocument == Get(get_document_by_filename(obs.startDb, proc.file))

\* C19: a run that starts on a fresh file leaves the documents and chunks
\* tables as they were; if the embeddings of the document are stored and its
\* index is not, the run ends in Ready without a call to the embedding
\* model, the index built from the stored embeddings being stored for the
\* document.
C19_FreshRecomputesOnlyAbsentLayers ==
    (CleanRunEnded /\ obs.start = "fresh")
    => /\ db.documents = obs.startDb.documents
       /\ db.chunks = obs.startDb.chunks
       /\ (/\ ~IsNone(get_embeddings(obs.startDb, StartDocument.document_id))
           /\ IsNone(get_faiss_index(obs.startDb, StartDocument.document_id)))
          => /\ proc.ready
             /\ obs.calls = 0
             /\ proc.chunks = StartDocument.chunks
             /\ get_faiss_index(db, StartDocument.document_id) =
                   Some(faiss_index_to_bytes(
                            Get(get_embeddings(obs.startDb, StartDocument.document_id))))

----------------------------------------------------------------------------
(* Claims about the search *)

\* the search of the main program has returned its labels
Searched == proc.ready /\ Len(proc.indices) > 0

\* C15: a search with k larger than the number n of indexed vectors returns
\* exactly n chunks, each position of the chunk list at most once, and no
\* padding entry.
C15_SearchClampsK ==
    (Searched /\ TopK > Len(Get(proc.faiss_index).rows))
    => /\ proc.pc = "answered"
       /\ Len(proc.relevant_chunks) = Len(Get(proc.faiss_index).rows)
       /\ \A j \in 1..Len(proc.relevant_chunks) : proc.indices[j] >= 0
       /\ \A i, j \in 1..Len(proc.relevant_chunks) : i # j => proc.indices[i] # proc.indices[j]

----------------------------------------------------------------------------
(* Claims about the fingerprint of a missing file *)

\* C16: the fingerprint of a path that does not exist is an error for the
\* caller and no value: a store_document call for such a path fails, and no
\* document is ever stored with the fingerprint of no file.
C16_MissingFileIsAnError ==
    /\ [](\A r \in db.documents : r.file_hash # EmptyHash)
    /\ [][(lastOp'.op = "store_document" /\ ~Exists(disk, lastOp'.filename))
             => (~lastOp'.ok /\ db'.documents = db.documents)]_vars

----------------------------------------------------------------------------
(* Claims about repeated stores *)

\* the step is a committed store_document call that repeats the call before
\* it: same filename, text and chunks, the file not written in between
RepeatsStore ==
    /\ lastOp.op = "store_document" /\ lastOp.ok
    /\ lastOp'.op = "store_document" /\ lastOp'.ok
    /\ lastOp'.filename = lastOp.filename
    /\ lastOp'.content_text = lastOp.content_text
    /\ lastOp'.chunks = lastOp.chunks
    /\ disk' = disk

\* C18: after a store_document call that repeats the one before it, the
\* file has the text and the ordered chunks it had after the first call,
\* one documents row, and under that row's id one chunk row per chunk.
C18_RepeatedStoreIsIdempotent ==
    [][RepeatsStore =>
        LET f == lastOp'.filename
            before == Get(get_document_by_filename(db, f))
            after == Get(get_document_by_filename(db', f))
        IN /\ after.content_text = before.content_text
           /\ after.chunks = before.chunks
           /\ after.chunks = lastOp'.chunks
           /\ Cardinality({r \in db'.documents : r.filename = f}) = 1
           /\ Cardinality(ChunksOf(db', after.document_id)) = Len(lastOp'.chunks)
           /\ \A c1, c2 \in ChunksOf(db', after.document_id) :
                 c1.chunk_index = c2.chunk_index => c1 = c2]_vars

\* the same two-chunk document was stored twice in a row
C18_Witness ==
    /\ lastOp.op = "store_document" /\ lastOp.ok
    /\ lastOp.document_id = 2
    /\ Len(lastOp.chunks) = 2
    /\ \A i \in 1..2 : Cardinality({c \in db.chunks : c.content = lastOp.chunks[i]}) = 2
    /\ Get(get_document_by_filename(db, lastOp.filename)).chunks = lastOp.chunks

\* C20: when a run has reached Ready, no other process having written or
\* removed a file, the live index holds one vector per chunk of the chunk
\* list of the run, the vectors being the stored embeddings of the live
\* document in chunk order, and every label the search returns for a vector
\* is a position of the chunk list.
C20_IndexMatchesChunks ==
    (proc.ready /\ obs.envSteps = 0)
    => LET index == Get(proc.faiss_index)
           doc == get_document_by_filename(db, proc.file)
       IN /\ Len(index.rows) = Len(proc.chunks)
          /\ ~IsNone(doc)
          /\ get_embeddings(db, Get(doc).document_id) =
                 Some([dim |-> index.dim, rows |-> index.rows])
          /\ proc.pc # "crashed"
          /\ \A j \in 1..Len(proc.indices) :
                proc.indices[j] >= 0 => proc.indices[j] < Len(proc.chunks)

----------------------------------------------------------------------------
(* Claims about the embeddings and index of a document stored again *)

\* C21: the id d that a store_document call returns has no embeddings and no
\* index, whatever was stored for the file before, and get_embeddings(d) and
\* get_faiss_index(d) stay None until store_embeddings(d, ...) and
\* store_faiss_index(d, ...) are called.
C21_NewDocumentHasNoEmbeddings ==
    /\ [][(lastOp'.op = "store_document" /\ lastOp'.ok)
             => /\ IsNone(get_embeddings(db', lastOp'.document_id))
                /\ IsNone(get_faiss_index(db', lastOp'.document_id))]_vars
    /\ [][\A id \in 1..MaxDocId :
             /\ (/\ IsNone(get_embeddings(db, id))
                 /\ ~(lastOp'.op = "store_embeddings" /\ lastOp'.document_id = id))
                => IsNone(get_embeddings(db', id))
             /\ (/\ IsNone(get_faiss_index(db, id))
                 /\ ~(lastOp'.op = "store_faiss_index" /\ lastOp'.document_id = id))
                => IsNone(get_faiss_index(db', id))]_vars

\* a file that had embeddings and an index was stored again with chunks
C21_Witness ==
    /\ lastOp.op = "store_document" /\ lastOp.ok
    /\ Len(lastOp.chunks) > 0
    /\ \E old \in 1..MaxDocId :
          /\ old # lastOp.document_id
          /\ old \notin DocumentIds
          /\ ~IsNone(get_embeddings(db, old))
          /\ ~IsNone(get_faiss_index(db, old))
    /\ Cardinality(db.documents) = 1
    /\ IsNone(get_embeddings(db, lastOp.document_id))
    /\ IsNone(get_faiss_index(db, lastOp.document_id))

----------------------------------------------------------------------------
(* Claims about the migration of legacy files *)

\* C22: a migration whose legacy embeddings file holds a number of vectors
\* other than the number of chunks of the legacy text writes no embeddings.
C22_MigrationValidatesCount ==
    [][(/\ proc.pc = "migrate"
        /\ Exists(disk, TxtFile(proc.file))
        /\ Exists(disk, EmbeddingsFile(proc.file))
        /\ Get(disk[EmbeddingsFile(proc.file)]).valid
        /\ Len(Get(disk[EmbeddingsFile(proc.file)]).array.rows) # Len(LegacyChunks))
          => db'.embeddings = db.embeddings]_vars

\* C23: migrate_from_files is called only in a run that started with no
\* document stored for the file, hence in no run after the one that
\* migrated it.
C23_MigrationOnlyWhenUnseen ==
    [][(proc.pc = "migrate" /\ proc'.pc # "migrate") => obs.start = "unseen"]_vars

\* a legacy embeddings or index file beside the source of the run that
\* cannot be parsed
UnparsableLegacy ==
    \/ /\ Exists(disk, EmbeddingsFile(proc.file))
       /\ ~Get(disk[EmbeddingsFile(proc.file)]).valid
    \/ /\ Exists(disk, FaissFile(proc.file))
       /\ IsNone(faiss_index_from_bytes(Get(disk[FaissFile(proc.file)])))

\* C24: a run on an unseen file with an unparsable legacy file beside it
\* ends in Ready, having called the embedding model and stored the index
\* built from the embeddings it computed.
C24_MigrationIsBestEffort ==
    (/\ CleanRunEnded
     /\ obs.start = "unseen"
     /\ Exists(disk, proc.file)
     /\ UnparsableLegacy)
    => /\ proc.ready
       /\ obs.calls = 1
       /\ proc.embeddings = Some(MatrixAsFloat32(Encode(proc.chunks)))
       /\ get_faiss_index(db, proc.document_id) =
              Some(faiss_index_to_bytes(Get(create_faiss_index(Get(proc.embeddings)))))

----------------------------------------------------------------------------
(* Claims about missing files *)

\* C25: document_exists is false for every file that is not on disk,
\* whatever the store holds, also when the fingerprint stored for the file
\* is the empty one that store_document records for a missing file.
C25_MissingFileIsNotFresh ==
    \A f \in Files : ~Exists(disk, f) => ~document_exists(db, disk, f)

\* a file that is not on disk is stored with the empty fingerprint
C25_Witness ==
    \E f \in Files :
        /\ ~Exists(disk, f)
        /\ \E r \in db.documents : r.filename = f /\ r.file_hash = EmptyHash
        /\ _get_file_hash(disk, f) = EmptyHash
        /\ ~document_exists(db, disk, f)

----------------------------------------------------------------------------
(* Claims about the chunk rows *)

\* C26: the chunk rows of every document in the documents table have the
\* ordinals 0..n-1, the row of ordinal i holding the chunk given at position
\* i of the last committed store of the file, and the word_count of a row is
\* the number of words of its content.
C26_ChunkOrdinalsDense ==
    \A r \in db.documents :
        LET rows == ChunksOf(db, r.id)
            n == Cardinality(rows)
            given == Get(lastStored[r.filename]).chunks
        IN /\ {c.chunk_index : c \in rows} = 0..(n - 1)
           /\ n = Len(given)
           /\ \A c \in rows : /\ c.content = given[c.chunk_index + 1]
                              /\ c.word_count = Len(split(c.content))

\* a migration has stored a two-chunk document over an earlier one
C26_Witness ==
    /\ lastOp.op = "migrate_from_files"
    /\ \E r \in db.documents :
          /\ r.id = lastOp.document_id
          /\ r.id > 1
          /\ Cardinality(ChunksOf(db, r.id)) = 2
          /\ \E c \in ChunksOf(db, r.id) : c.chunk_index = 1 /\ c.word_count = 1
          /\ \E c \in ChunksOf(db, r.id) : c.chunk_index = 0 /\ c.word_count = DefaultMaxWords
    /\ Cardinality(db.chunks) > 2

----------------------------------------------------------------------------
(* Claims about what the main program holds and what the store holds *)

\* C27: from the moment a run holds a document id, this id is the id of the
\* documents row of its file, also after migrate_from_files has stored the
\* document again.
C27_RunHoldsLiveId ==
    proc.pc \in {"lookup", "migrate", "migrated", "generate", "ready", "answered"}
    => /\ ~IsNone(get_document_by_filename(db, proc.file))
       /\ Get(get_document_by_filename(db, proc.file)).document_id = proc.document_id

\* the text the main program obtains from the file as it is on disk
TextOf(f) ==
    IF IsPdf(f) THEN extract_text_pdf(Get(disk[f])) ELSE ReadText(Get(disk[f]))

\* C28: while no other process writes or removes a file, a file that
\* document_exists reports fresh is stored with the text of its current
\* content and the chunks of this text.
C28_FreshMeansCurrentText ==
    obs.envSteps = 0 =>
        \A f \in Files :
            document_exists(db, disk, f) =>
                LET doc == Get(get_document_by_filename(db, f))
                IN /\ doc.content_text = TextOf(f)
                   /\ doc.chunks = split_into_chunks(TextOf(f), DefaultMaxWords)

\* C29: when the main program has stored the text it read, the file is
\* reported fresh only if the stored text is the text of the file as it is
\* now, also when another process wrote the file after the text was read.
C29_StoredFingerprintIsOfTextRead ==
    [][(/\ proc.pc = "store"
        /\ proc'.pc = "lookup"
        /\ document_exists(db', disk', proc.file))
          => Get(get_document_by_filename(db', proc.file)).content_text = TextOf(proc.file)]_vars

====
